---- MODULE Spec2Model ----
(***************************************************************************)
(* Real-time message delivery of the chat application: the web client's    *)
(* message store (chat-store.ts), the client session hook                  *)
(* useUserWebSocket (use-websocket.ts), and the chat service's Messages /  *)
(* Inbox tables (DynamoDB inbox pattern) with its connection manager.      *)
(***************************************************************************)
EXTENDS Integers, Sequences, FiniteSets, TLC

(***************************************************************************)
(* Bounds of the model.                                                    *)
(***************************************************************************)
MaxSockets == 8
MaxSessionSockets == 4
MaxDeliverySockets == 2
MaxSends == 2
MaxTime == 1
MaxUserChanges == 2
MaxStoreLen == 3
MaxInitLen == 2
MaxCommandsInFlight == 1
MaxDrops == 2

(***************************************************************************)
(* Program constants.                                                      *)
(***************************************************************************)
MAX_RECONNECT_ATTEMPTS == 5
BASE_RECONNECT_DELAY == 1000
InboxQueryLimit == 50

NoUser == 0
Users == {1, 2, 3}
TabUsers == {1, 2}
ChatIds == {1, 2}

\* Membership collaborator: participants of each chat.
Participants(c) == IF c = 1 THEN {1, 2, 3} ELSE {1, 3}

ChatsOf(u) == {c \in ChatIds : u \in Participants(c)}

RECURSIVE Pow2(_)
Pow2(n) == IF n = 0 THEN 1 ELSE 2 * Pow2(n - 1)

Range(s) == {s[i] : i \in 1..Len(s)}

RECURSIVE SeqOfSet(_)
SeqOfSet(S) == IF S = {} THEN <<>>
               ELSE LET x == CHOOSE y \in S : \A z \in S : y <= z
                    IN <<x>> \o SeqOfSet(S \ {x})

VARIABLES
  \* chat-store.ts (zustand store + persist middleware)
  storeUserId, chats, messagesByChat, localStorage,
  \* use-websocket.ts (refs and state of useUserWebSocket)
  effectUser, wsRef, isConnected, isSyncing, subscribedChats,
  reconnectAttempts, reconnectTimeout, shouldReconnect,
  \* browser: sockets, pending timers, HTTP sync requests in flight
  sockets, socketCount, timers, syncReqs,
  \* chat service
  clock, nextMessageId, messagesTable, inboxTable,
  userConnections, userSubscriptions,
  \* bound of the run and history of the run
  cap, hist

storeVars == <<storeUserId, chats, messagesByChat, localStorage>>
hookVars == <<effectUser, wsRef, isConnected, isSyncing, subscribedChats,
              reconnectAttempts, reconnectTimeout, shouldReconnect>>
netVars == <<sockets, socketCount, timers, syncReqs>>
srvVars == <<clock, nextMessageId, messagesTable, inboxTable,
             userConnections, userSubscriptions>>
vars == <<storeVars, hookVars, netVars, srvVars, cap, hist>>

(***************************************************************************)
(* chat-store.ts                                                           *)
(***************************************************************************)

\* findIndex((m) => m.message_id === message.message_id): first index or 0.
FindIndex(list, id) ==
  IF \E i \in 1..Len(list) : list[i].message_id = id
  THEN CHOOSE i \in 1..Len(list) :
         /\ list[i].message_id = id
         /\ \A j \in 1..(i - 1) : list[j].message_id # id
  ELSE 0

\* { ...existing, ...message }: every own key of message overrides, also a
\* key whose value is undefined.
SpreadMerge(existing, message) ==
  [k \in (DOMAIN existing) \cup (DOMAIN message) |->
     IF k \in DOMAIN message THEN message[k] ELSE existing[k]]

\* A merge in which the stored fields win: { ...message, ...existing }.
UpsertExistingWins(list, message) ==
  LET idx == FindIndex(list, message.message_id)
  IN IF idx > 0
     THEN [list EXCEPT ![idx] = SpreadMerge(message, list[idx])]
     ELSE Append(list, message)

\* An insert that never looks for the id.
UpsertAlwaysAppend(list, message) == Append(list, message)

\* addMessage: the upsert on one chat's list.
Upsert(list, message) ==
  LET idx == FindIndex(list, message.message_id)
  IN IF idx > 0
     THEN SubSeq(list, 1, idx - 1)
            \o <<SpreadMerge(list[idx], message)>>
            \o SubSeq(list, idx + 1, Len(list))
     ELSE Append(list, message)

\* addMessage(chatId, message) on the messagesByChat record.
AddMessageTo(mbc, chatId, message) ==
  [mbc EXCEPT ![chatId] = Upsert(mbc[chatId], message)]

\* bumpChat(chatId) on the chats list: move the chat to the front.
BumpChatIn(list, chatId) ==
  IF chatId \in Range(list)
  THEN <<chatId>> \o SelectSeq(list, LAMBDA c : c # chatId)
  ELSE list

EmptyStore == [c \in ChatIds |-> <<>>]

\* persist.setItem: messagesByChat is written under the key of the user.
Persist(ls, uid, mbc) == [ls EXCEPT ![uid] = mbc]

(***************************************************************************)
(* Message records built by the client.                                    *)
(***************************************************************************)

\* handleMessage, case "message": the record built from a live frame.
LiveMessage(data) ==
  [message_id |-> data.message_id,
   chat_id |-> data.chat_id,
   sender_id |-> data.sender_id,
   sender_username |-> data.sender_username,
   sender_name |-> data.sender_name,
   content |-> data.content,
   created_at |-> data.created_at,
   type |-> "message",
   upload_status |-> data.upload_status,
   s3_bucket |-> data.s3_bucket,
   s3_key |-> data.s3_key]

\* syncInbox: the record built from one item of the sync response.
SyncMessage(item) ==
  [message_id |-> item.message_id,
   chat_id |-> item.chat_id,
   sender_id |-> item.sender_id,
   content |-> item.content,
   created_at |-> item.created_at,
   type |-> "message",
   upload_status |-> item.upload_status,
   s3_bucket |-> item.s3_bucket,
   s3_key |-> IF item.s3_object_key # "undefined"
              THEN item.s3_object_key ELSE item.s3_key]

\* handleSendMessage: the local placeholder of an attachment upload.
PendingMessage(chatId, uid, messageId, now) ==
  [message_id |-> messageId,
   chat_id |-> chatId,
   sender_id |-> uid,
   content |-> "att",
   created_at |-> now,
   type |-> "message",
   upload_status |-> "PENDING",
   s3_bucket |-> "bucket",
   s3_key |-> "key"]

(***************************************************************************)
(* Browser WebSocket objects and timers.                                   *)
(***************************************************************************)

\* `sockets` holds the WebSocket objects that are not yet closed on both
\* ends, by the order number of their creation; a socket that is not in it
\* any more is CLOSED.
ReadyState(socks, i) ==
  IF i \in DOMAIN socks THEN socks[i].readyState ELSE "CLOSED"

\* new WebSocket(url) made by the connect() of the effect run `e` for user u.
NewSocket(u, e) ==
  [owner |-> u, epoch |-> e, readyState |-> "CONNECTING", everOpen |-> FALSE,
   srv |-> "none", s2c |-> <<>>, c2s |-> <<>>]

\* A socket closed by the client whose service side is not up is forgotten.
Forget(socks) ==
  LET keep == {i \in DOMAIN socks :
                 ~(socks[i].readyState = "CLOSED" /\ socks[i].srv # "up")}
  IN [i \in keep |-> socks[i]]

\* ws.close(): a socket that is connecting or open starts closing; no
\* message event is dispatched to it any more.
CloseSocket(socks, i) ==
  IF ReadyState(socks, i) \in {"CONNECTING", "OPEN"}
  THEN [socks EXCEPT ![i].readyState = "CLOSING", ![i].s2c = <<>>]
  ELSE socks

IsOpen(socks, ref) == ref # 0 /\ ReadyState(socks, ref) = "OPEN"

\* ws.send(frame) on the socket wsRef points to; a frame sent to a service
\* side that is down is lost.
SendOn(socks, ref, frame) ==
  IF socks[ref].srv = "up"
  THEN [socks EXCEPT ![ref].c2s = Append(@, frame)]
  ELSE socks

\* clearTimeout(id)
ClearTimeout(ts, id) == {t \in ts : t.id # id}

\* A connect() that leaves the socket wsRef points to as it is.
ConnectSocketsKeep(socks, ref, n, u, e) == socks @@ (n :> NewSocket(u, e))

\* connect(): closes the socket wsRef points to, then creates a new one.
ConnectSockets(socks, ref, n, u, e) ==
  (IF ref # 0 THEN CloseSocket(socks, ref) ELSE socks) @@ (n :> NewSocket(u, e))

\* A delay that grows linearly with the attempt.
ReconnectDelayLinear(attempts) == BASE_RECONNECT_DELAY * (attempts + 1)

\* BASE_RECONNECT_DELAY * Math.pow(2, reconnectAttempts.current)
ReconnectDelay(attempts) == BASE_RECONNECT_DELAY * Pow2(attempts)

\* A close handler that reconnects after a clean close as well.
ShouldScheduleIgnoreClean(wasClean, should, attempts) ==
  should /\ attempts < MAX_RECONNECT_ATTEMPTS

\* ws.onclose: the condition of the auto-reconnect.
ShouldSchedule(wasClean, should, attempts) ==
  ~wasClean /\ should /\ attempts < MAX_RECONNECT_ATTEMPTS

(***************************************************************************)
(* chat-store.ts: setUser                                                  *)
(***************************************************************************)

\* setUser(userId, ...): the store switches to the messages persisted for
\* the new user; persist then writes the new state under the new user's key.
SetUser(u) ==
  /\ u # storeUserId
  /\ hist.userChanges < cap.userChanges
  /\ storeUserId' = u
  /\ messagesByChat' = IF u # NoUser THEN localStorage[u] ELSE EmptyStore
  /\ localStorage' = Persist(localStorage, u, messagesByChat')
  /\ hist' = [hist EXCEPT !.userChanges = @ + 1]
  /\ UNCHANGED <<chats, hookVars, netVars, srvVars, cap>>

(***************************************************************************)
(* use-websocket.ts: useUserWebSocket                                      *)
(***************************************************************************)

\* The effect "Initial connection and cleanup" re-runs for a changed userId:
\* the cleanup of the previous run, then the body for the new userId.
CommitEffect ==
  /\ effectUser # storeUserId
  /\ storeUserId # NoUser => socketCount < cap.sockets
  /\ LET hadEffect == effectUser # NoUser
         \* cleanup
         timers1 == IF hadEffect /\ reconnectTimeout # 0
                    THEN ClearTimeout(timers, reconnectTimeout) ELSE timers
         timeout1 == IF hadEffect THEN 0 ELSE reconnectTimeout
         socks1 == IF hadEffect /\ wsRef # 0
                   THEN CloseSocket(sockets, wsRef) ELSE sockets
         ref1 == IF hadEffect THEN 0 ELSE wsRef
         should1 == IF hadEffect THEN FALSE ELSE shouldReconnect
         epoch1 == hist.epoch + 1
     IN /\ timers' = timers1
        /\ reconnectTimeout' = timeout1
        /\ IF storeUserId # NoUser
           THEN /\ shouldReconnect' = TRUE
                /\ socketCount' = socketCount + 1
                /\ sockets' = ConnectSockets(socks1, ref1, socketCount',
                                             storeUserId, epoch1)
                /\ wsRef' = socketCount'
           ELSE /\ shouldReconnect' = should1
                /\ sockets' = socks1
                /\ wsRef' = ref1
                /\ UNCHANGED socketCount
        /\ hist' = [hist EXCEPT
                      !.epoch = epoch1,
                      !.schedule = <<>>,
                      !.created = IF storeUserId # NoUser THEN 1 ELSE 0,
                      !.opened = FALSE,
                      !.held = <<>>]
  /\ effectUser' = storeUserId
  /\ UNCHANGED <<storeVars, isConnected, isSyncing, subscribedChats,
                 reconnectAttempts, syncReqs, srvVars, cap>>

\* An onopen that leaves the attempt counter alone.
AttemptsAfterOpenKept == reconnectAttempts

\* reconnectAttempts.current = 0 in ws.onopen.
AttemptsAfterOpen == 0

\* A syncInbox whose guard never passes.
SyncGuardNever(socks, ref, u) == FALSE

\* The guards of syncInbox: a user id, and wsRef pointing to an open socket.
SyncGuard(socks, ref, u) == u # NoUser /\ IsOpen(socks, ref)

\* ws.onopen of socket s (readyState becomes OPEN): setIsConnected(true),
\* the attempt counter is reset, syncInbox() of the closure's userId starts.
OnOpen(s) ==
  /\ sockets[s].readyState = "CONNECTING"
  /\ sockets[s].srv # "none"
  /\ LET socks1 == [sockets EXCEPT ![s].readyState = "OPEN",
                                   ![s].everOpen = TRUE]
         syncs == SyncGuard(socks1, wsRef, sockets[s].owner)
     IN /\ sockets' = socks1
        /\ isConnected' = TRUE
        /\ reconnectAttempts' = AttemptsAfterOpen
        /\ isSyncing' = IF syncs THEN TRUE ELSE isSyncing
        /\ syncReqs' = IF syncs
                       THEN Append(syncReqs, [user |-> sockets[s].owner,
                                              stage |-> "sent",
                                              items |-> <<>>, seen |-> {},
                                              acked |-> {}])
                       ELSE syncReqs
  /\ hist' = [hist EXCEPT !.opened = TRUE]
  /\ UNCHANGED <<storeVars, effectUser, wsRef, subscribedChats,
                 reconnectTimeout, shouldReconnect, socketCount, timers,
                 srvVars, cap>>

\* ws.onclose of socket s with event.wasClean = clean.  A socket that never
\* opened cannot close cleanly.
OnClose(s, clean) ==
  /\ sockets[s].readyState \in {"CONNECTING", "OPEN", "CLOSING"}
  /\ clean => sockets[s].everOpen
  /\ sockets' = Forget([sockets EXCEPT ![s].readyState = "CLOSED",
                                       ![s].s2c = <<>>])
  /\ isConnected' = FALSE
  /\ subscribedChats' = <<>>
  /\ IF ShouldSchedule(clean, shouldReconnect, reconnectAttempts)
     THEN /\ timers' = timers \cup
                {[id |-> s, delay |-> ReconnectDelay(reconnectAttempts),
                  user |-> sockets[s].owner, epoch |-> sockets[s].epoch]}
          /\ reconnectTimeout' = s
          /\ hist' = [hist EXCEPT
                        !.schedule = Append(@, ReconnectDelay(reconnectAttempts)),
                        !.held = IF subscribedChats # <<>>
                                 THEN subscribedChats ELSE @]
     ELSE /\ hist' = [hist EXCEPT
                        !.held = IF subscribedChats # <<>>
                                 THEN subscribedChats ELSE @]
          /\ UNCHANGED <<timers, reconnectTimeout>>
  /\ UNCHANGED <<storeVars, effectUser, wsRef, isSyncing, reconnectAttempts,
                 shouldReconnect, socketCount, syncReqs, srvVars, cap>>

\* The reconnect timer t fires: reconnectAttempts.current++; connect().
TimerFire(t) ==
  /\ t \in timers
  /\ socketCount < cap.sockets
  /\ timers' = timers \ {t}
  /\ reconnectAttempts' = reconnectAttempts + 1
  /\ socketCount' = socketCount + 1
  /\ sockets' = ConnectSockets(sockets, wsRef, socketCount', t.user, t.epoch)
  /\ wsRef' = socketCount'
  /\ hist' = [hist EXCEPT !.created = @ + 1]
  /\ UNCHANGED <<storeVars, effectUser, isConnected, isSyncing,
                 subscribedChats, reconnectTimeout, shouldReconnect,
                 syncReqs, srvVars, cap>>

\* The acknowledgement frame of a message id.
AckFrame(id) == [type |-> "ack-message-received", message_id |-> id]

\* A handler that bumps and acknowledges without the addMessage.
HandleChatMessageNoMerge(data) ==
  /\ chats' = BumpChatIn(chats, data.chat_id)
  /\ UNCHANGED <<messagesByChat, localStorage>>

\* handleMessage, case "message", applied to frame `data`: merge, bump, ack.
HandleChatMessage(data) ==
  /\ messagesByChat' = AddMessageTo(messagesByChat, data.chat_id,
                                    LiveMessage(data))
  /\ localStorage' = Persist(localStorage, storeUserId, messagesByChat')
  /\ chats' = BumpChatIn(chats, data.chat_id)

\* A handler of the connected frame that ignores its subscribed_chats.
ConnectedChatsIgnored(data) == <<>>

\* handleMessage, case "connected": setSubscribedChats(data.subscribed_chats).
ConnectedChats(data) == data.subscribed_chats

\* ws.onmessage of socket s: handleMessage on the oldest frame in flight.
OnMessage(s) ==
  /\ sockets[s].readyState = "OPEN"
  /\ sockets[s].s2c # <<>>
  /\ LET data == Head(sockets[s].s2c)
         socks1 == [sockets EXCEPT ![s].s2c = Tail(@)]
     IN CASE data.type = "connected" ->
               /\ subscribedChats' = ConnectedChats(data)
               /\ sockets' = socks1
               /\ UNCHANGED storeVars
          [] data.type = "error" ->
               /\ sockets' = socks1
               /\ UNCHANGED <<storeVars, subscribedChats>>
          [] data.type = "subscribed" ->
               /\ subscribedChats' =
                    IF data.success /\ data.chat_id \notin Range(subscribedChats)
                    THEN Append(subscribedChats, data.chat_id)
                    ELSE subscribedChats
               /\ sockets' = socks1
               /\ UNCHANGED storeVars
          [] data.type = "unsubscribed" ->
               /\ subscribedChats' =
                    IF data.success
                    THEN SelectSeq(subscribedChats,
                                   LAMBDA id : id # data.chat_id)
                    ELSE subscribedChats
               /\ sockets' = socks1
               /\ UNCHANGED storeVars
          [] data.type = "message" ->
               /\ HandleChatMessage(data)
               /\ sockets' = IF IsOpen(socks1, wsRef)
                             THEN SendOn(socks1, wsRef,
                                         AckFrame(data.message_id))
                             ELSE socks1
               /\ UNCHANGED <<storeUserId, subscribedChats>>
  /\ UNCHANGED <<effectUser, wsRef, isConnected, isSyncing, reconnectAttempts,
                 reconnectTimeout, shouldReconnect, socketCount, timers,
                 syncReqs, srvVars, cap, hist>>

\* The loop of syncInbox over the items of a response: merge, bump, ack each.
RECURSIVE SyncLoop(_, _, _, _, _)
SyncLoop(items, mbc, order, socks, ref) ==
  IF items = <<>> THEN [mbc |-> mbc, chats |-> order, sockets |-> socks]
  ELSE LET item == Head(items)
       IN SyncLoop(Tail(items),
                   AddMessageTo(mbc, item.chat_id, SyncMessage(item)),
                   BumpChatIn(order, item.chat_id),
                   IF IsOpen(socks, ref)
                   THEN SendOn(socks, ref, AckFrame(item.message_id))
                   ELSE socks,
                   ref)

RemoveAt(seq, i) == SubSeq(seq, 1, i - 1) \o SubSeq(seq, i + 1, Len(seq))

\* syncInbox after `await chatApi.syncInbox(userId)` resolved: the loop over
\* response.items, then setIsSyncing(false).
SyncResponse(i) ==
  /\ i \in 1..Len(syncReqs)
  /\ syncReqs[i].stage = "resp"
  /\ LET r == SyncLoop(syncReqs[i].items, messagesByChat, chats, sockets, wsRef)
     IN /\ messagesByChat' = r.mbc
        /\ chats' = r.chats
        /\ sockets' = r.sockets
        /\ localStorage' = Persist(localStorage, storeUserId, r.mbc)
  /\ hist' = [hist EXCEPT
                !.synced = @ \cup {<<syncReqs[i].user, m>> :
                                     m \in syncReqs[i].seen}]
  /\ isSyncing' = FALSE
  /\ syncReqs' = RemoveAt(syncReqs, i)
  /\ UNCHANGED <<storeUserId, effectUser, wsRef, isConnected, subscribedChats,
                 reconnectAttempts, reconnectTimeout, shouldReconnect,
                 socketCount, timers, srvVars, cap>>

\* syncInbox when the request fails: catch, then setIsSyncing(false).
SyncError(i) ==
  /\ i \in 1..Len(syncReqs)
  /\ isSyncing' = FALSE
  /\ syncReqs' = RemoveAt(syncReqs, i)
  /\ UNCHANGED <<storeVars, effectUser, wsRef, isConnected, subscribedChats,
                 reconnectAttempts, reconnectTimeout, shouldReconnect,
                 sockets, socketCount, timers, srvVars, cap, hist>>

\* The `message` frames of the client that the service has not read yet.
MessagesInFlight ==
  LET Count(i) == Len(SelectSeq(sockets[i].c2s,
                                  LAMBDA f : f.type = "message"))
      RECURSIVE Sum(_)
      Sum(S) == IF S = {} THEN 0
                ELSE LET i == CHOOSE j \in S : TRUE
                     IN Count(i) + Sum(S \ {i})
  IN Sum(DOMAIN sockets)

\* The sends of a run so far: stored, rejected or still on their way.
SendsUsed == nextMessageId - 1 + hist.rejected + MessagesInFlight

\* A guard that lets a command through on any socket wsRef points to.
CanTransmitAlways(socks, ref) == ref # 0 /\ ref \in DOMAIN socks

\* The guard of sendMessage, subscribeToChat and unsubscribeFromChat:
\* wsRef.current is set and its readyState is OPEN.
CanTransmit(socks, ref) == IsOpen(socks, ref)

\* A command that returns at its guard: nothing but the history of the run
\* changes.
Dropped ==
  /\ hist.dropped < cap.drops
  /\ hist' = [hist EXCEPT !.dropped = @ + 1]
  /\ UNCHANGED <<storeVars, hookVars, netVars, srvVars, cap>>

\* The frames on the socket wsRef points to that their receiver has not
\* read yet, in either direction.
CommandsInFlight ==
  IF wsRef \in DOMAIN sockets
  THEN Len(sockets[wsRef].c2s) + Len(sockets[wsRef].s2c)
  ELSE 0

\* sendMessage(chatId, content): without an open socket it returns; with an
\* open socket the frame is sent and the chat is bumped.
SendMessage(c) ==
  IF CanTransmit(sockets, wsRef)
  THEN /\ sockets[wsRef].srv = "up"
       /\ SendsUsed < cap.sends
       /\ sockets' = SendOn(sockets, wsRef,
                            [type |-> "message", chat_id |-> c,
                             content |-> "hi"])
       /\ chats' = BumpChatIn(chats, c)
       /\ UNCHANGED <<storeUserId, messagesByChat, localStorage, hookVars,
                      socketCount, timers, syncReqs, srvVars, cap, hist>>
  ELSE Dropped

\* subscribeToChat(chatId) / unsubscribeFromChat(chatId): without an open
\* socket it returns; with an open socket the frame is sent.
SubscriptionCommand(type, c) ==
  IF CanTransmit(sockets, wsRef)
  THEN /\ sockets[wsRef].srv = "up"
       /\ CommandsInFlight < MaxCommandsInFlight
       /\ sockets' = SendOn(sockets, wsRef, [type |-> type, chat_id |-> c])
       /\ UNCHANGED <<storeVars, hookVars, socketCount, timers, syncReqs,
                      srvVars, cap, hist>>
  ELSE Dropped

\* subscribeToChat(chatId), called for a chat the user has joined.
SubscribeToChat(c) ==
  /\ c \in ChatsOf(storeUserId)
  /\ SubscriptionCommand("subscribe", c)

\* unsubscribeFromChat(chatId), called for a chat the user has left.
UnsubscribeFromChat(c) ==
  /\ storeUserId # NoUser
  /\ c \notin ChatsOf(storeUserId)
  /\ SubscriptionCommand("unsubscribe", c)

(***************************************************************************)
(* Chat service: Messages and Inbox tables (DynamoDB inbox pattern).       *)
(***************************************************************************)

\* messages_table.put_item: primary key (chatId, createdAt); an item with the
\* key of an existing item replaces it.
PutMessage(table, item) ==
  {r \in table : ~(r.chatId = item.chatId /\ r.createdAt = item.createdAt)}
    \cup {item}

\* inbox_table.put_item: primary key (recipientId, createdAt).
PutInbox(table, item) ==
  {r \in table : ~(r.recipientId = item.recipientId
                   /\ r.createdAt = item.createdAt)}
    \cup {item}

\* A recipient list that keeps the sender.
RecipientsWithSender(c, sender) == Participants(c)

\* recipient_ids = [p.participant_id for p in participants
\*                  if p.participant_id != sender_id]
Recipients(c, sender) == Participants(c) \ {sender}

\* for recipient in recipients: inbox_table.put_item({...})
RECURSIVE InboxFanout(_, _, _, _, _)
InboxFanout(table, recipients, c, t, m) ==
  IF recipients = <<>> THEN table
  ELSE InboxFanout(PutInbox(table, [recipientId |-> Head(recipients),
                                    createdAt |-> t,
                                    chatId |-> c,
                                    messageId |-> m]),
                   Tail(recipients), c, t, m)

\* An inbox query without the key condition on recipientId.
InboxPartitionAll(table, r) == table

\* KeyConditionExpression = Key('recipientId').eq(r)
InboxPartition(table, r) == {e \in table : e.recipientId = r}

\* The items of a partition by createdAt, newest first
\* (ScanIndexForward = False).
RECURSIVE NewestFirst(_)
NewestFirst(S) ==
  IF S = {} THEN <<>>
  ELSE LET x == CHOOSE y \in S : \A z \in S : z.createdAt <= y.createdAt
       IN <<x>> \o NewestFirst(S \ {x})

Take(seq, n) == SubSeq(seq, 1, IF Len(seq) < n THEN Len(seq) ELSE n)

\* inbox_table.query(recipientId = r, ScanIndexForward = False, Limit = 50)
InboxQuery(table, r) ==
  Take(NewestFirst(InboxPartition(table, r)), InboxQueryLimit)

\* The message frame / sync item of a Messages row.
WireMessage(row) ==
  [type |-> "message", message_id |-> row.messageId, chat_id |-> row.chatId,
   sender_id |-> row.senderId, sender_username |-> "name",
   sender_name |-> "name", content |-> row.content,
   created_at |-> row.createdAt, upload_status |-> "undefined",
   s3_bucket |-> "undefined", s3_key |-> "undefined"]

SyncItem(row) ==
  [message_id |-> row.messageId, chat_id |-> row.chatId,
   sender_id |-> row.senderId, content |-> row.content,
   created_at |-> row.createdAt, upload_status |-> "undefined",
   s3_bucket |-> "undefined", s3_object_key |-> "undefined",
   s3_key |-> "undefined"]

\* Inbox sync: the entries of the recipient, each resolved to its Message by
\* message id; an entry whose Message row is gone resolves to nothing.
RECURSIVE Hydrate(_, _)
Hydrate(entries, msgs) ==
  IF entries = <<>> THEN <<>>
  ELSE LET rows == {r \in msgs : r.messageId = Head(entries).messageId}
       IN (IF rows = {} THEN <<>> ELSE <<SyncItem(CHOOSE r \in rows : TRUE)>>)
            \o Hydrate(Tail(entries), msgs)

SyncItems(r) == Hydrate(InboxQuery(inboxTable, r), messagesTable)

\* Acknowledgement of message m by recipient r retires the matching entry.
AckInbox(table, r, m) ==
  {e \in table : ~(e.recipientId = r /\ e.messageId = m)}

\* A forward that pushes the frame down every connection.
ForwardToAll(socks, conns, subs, c, frame) ==
  [i \in DOMAIN socks |->
     IF /\ \E u \in TabUsers : conns[u] = i
        /\ socks[i].readyState \in {"CONNECTING", "OPEN"}
     THEN [socks[i] EXCEPT !.s2c = Append(@, frame)]
     ELSE socks[i]]

\* Forward: the frame is pushed to every locally connected subscriber.
Forward(socks, conns, subs, c, frame) ==
  [i \in DOMAIN socks |->
     IF /\ \E u \in TabUsers : conns[u] = i /\ c \in subs[u]
        /\ socks[i].readyState \in {"CONNECTING", "OPEN"}
     THEN [socks[i] EXCEPT !.s2c = Append(@, frame)]
     ELSE socks[i]]

\* Send(sender, chat): Message row, inbox fanout, then publish.  `published`
\* is whether the broker publish succeeded.
DoSend(sender, c, published, socks) ==
  LET row == [chatId |-> c, createdAt |-> clock, messageId |-> nextMessageId,
              senderId |-> sender, content |-> "hi"]
      rcpts == Recipients(c, sender)
  IN /\ messagesTable' = PutMessage(messagesTable, row)
     /\ inboxTable' = InboxFanout(inboxTable, SeqOfSet(rcpts), c, clock,
                                  nextMessageId)
     /\ sockets' = IF published
                   THEN Forward(socks, userConnections, userSubscriptions, c,
                                WireMessage(row))
                   ELSE socks
     /\ nextMessageId' = nextMessageId + 1
     /\ hist' = [hist EXCEPT
                   !.sentTo = @ \cup {<<r, nextMessageId>> : r \in rcpts}]

\* A message sent by a user from another device.
ServerSend(sender, c, published) ==
  /\ SendsUsed < cap.sends
  /\ sender \in Participants(c)
  /\ sender # storeUserId
  /\ DoSend(sender, c, published, sockets)
  /\ UNCHANGED <<storeVars, hookVars, socketCount, timers, syncReqs, clock,
                 userConnections, userSubscriptions, cap>>

\* The clock of the service advances by one millisecond.
Tick ==
  /\ clock < MaxTime
  /\ clock' = clock + 1
  /\ UNCHANGED <<storeVars, hookVars, netVars, nextMessageId, messagesTable,
                 inboxTable, userConnections, userSubscriptions, cap, hist>>

(***************************************************************************)
(* Chat service: connection manager and endpoints.                         *)
(***************************************************************************)

\* A connect that subscribes to no chat channel.
SubscribeNone(subs, u) == subs

\* The WebSocket manager subscribes on connect to one channel per chat the
\* user is a member of.
SubscribeOnConnect(subs, u) == [subs EXCEPT ![u] = ChatsOf(u)]

\* A connect that leaves a prior connection of the user running.
KeepPrior(socks, old) == socks

\* The prior connection of a user is torn down: its listener is cancelled
\* and what it had not read is lost.
TearDownPrior(socks, old) ==
  IF old # 0
  THEN [socks EXCEPT ![old].srv = "down", ![old].c2s = <<>>]
  ELSE socks

\* Connect(user_id, transport) when the handshake of socket s is accepted:
\* a prior connection of the user is torn down, the subscriptions are seeded
\* from the memberships, the `connected` frame is sent.
ServerConnect(s) ==
  /\ cap.reachable
  /\ sockets[s].readyState = "CONNECTING"
  /\ sockets[s].srv = "none"
  /\ LET u == sockets[s].owner
         old == userConnections[u]
         socks1 == TearDownPrior(sockets, old)
     IN /\ sockets' = Forget([socks1 EXCEPT
                         ![s].srv = "up",
                         ![s].s2c = Append(@,
                            [type |-> "connected", user_id |-> u,
                             subscribed_chats |-> SeqOfSet(ChatsOf(u))])])
        /\ userConnections' = [userConnections EXCEPT ![u] = s]
        /\ userSubscriptions' = SubscribeOnConnect(userSubscriptions, u)
  /\ UNCHANGED <<storeVars, hookVars, socketCount, timers, syncReqs, clock,
                 nextMessageId, messagesTable, inboxTable, cap, hist>>

\* A disconnect that drops the subscriptions of every user.
DisconnectEveryone(socks, conns, subs, u) ==
  [socks |-> IF conns[u] \in DOMAIN socks
             THEN [socks EXCEPT ![conns[u]].srv = "down",
                                ![conns[u]].c2s = <<>>]
             ELSE socks,
   conns |-> [conns EXCEPT ![u] = 0],
   subs |-> [v \in DOMAIN subs |-> {}]]

\* Disconnect(user_id): the listener task of the user's connection is
\* cancelled, the user's channels are unsubscribed and the user's entry is
\* removed; nothing happens for a user without an entry.
Disconnect(socks, conns, subs, u) ==
  [socks |-> IF conns[u] \in DOMAIN socks
             THEN [socks EXCEPT ![conns[u]].srv = "down",
                                ![conns[u]].c2s = <<>>]
             ELSE socks,
   conns |-> [conns EXCEPT ![u] = 0],
   subs |-> [subs EXCEPT ![u] = {}]]

\* Disconnect(user_id) for socket s: the service closes the connection or
\* notices that the client closed it.
ServerDisconnect(s) ==
  /\ sockets[s].srv = "up"
  /\ LET u == sockets[s].owner
     IN IF userConnections[u] = s
        THEN LET after == Disconnect(sockets, userConnections,
                                     userSubscriptions, u)
             IN /\ sockets' = Forget(after.socks)
                /\ userConnections' = after.conns
                /\ userSubscriptions' = after.subs
        ELSE /\ sockets' = Forget([sockets EXCEPT ![s].srv = "down",
                                                  ![s].c2s = <<>>])
             /\ UNCHANGED <<userConnections, userSubscriptions>>
  /\ UNCHANGED <<storeVars, hookVars, socketCount, timers, syncReqs, clock,
                 nextMessageId, messagesTable, inboxTable, cap, hist>>

\* A validation that accepts every sender.
IsParticipantAlways(u, c) == TRUE

\* Validation of a Send: the sender is a participant of the chat.
IsParticipant(u, c) == u \in Participants(c)

\* A rejected frame is answered with an `error` frame on the connection it
\* came from.
Reject(socks, s) ==
  IF socks[s].readyState \in {"CONNECTING", "OPEN"}
  THEN [socks EXCEPT ![s].s2c = Append(@, [type |-> "error"])]
  ELSE socks

\* Subscribe(user_id, chat_id) / Unsubscribe(user_id, chat_id): the channel
\* set of the user's live connection after the service read `frame`.
SubscriptionsAfter(subs, u, frame) ==
  CASE frame.type = "subscribe" ->
         [subs EXCEPT ![u] = @ \cup {frame.chat_id}]
    [] frame.type = "unsubscribe" ->
         [subs EXCEPT ![u] = @ \ {frame.chat_id}]
    [] OTHER -> subs

\* A subscription change is confirmed with a `subscribed` / `unsubscribed`
\* frame on the connection it came from.
Confirm(socks, s, frame) ==
  IF socks[s].readyState \in {"CONNECTING", "OPEN"}
  THEN [socks EXCEPT ![s].s2c = Append(@,
          [type |-> IF frame.type = "subscribe"
                    THEN "subscribed" ELSE "unsubscribed",
           chat_id |-> frame.chat_id, success |-> TRUE])]
  ELSE socks

\* The service reads the oldest frame the client sent on socket s.
ServerRecv(s) ==
  /\ sockets[s].srv = "up"
  /\ sockets[s].c2s # <<>>
  /\ LET frame == Head(sockets[s].c2s)
         u == sockets[s].owner
         socks1 == [sockets EXCEPT ![s].c2s = Tail(@)]
     IN CASE frame.type = "ack-message-received" ->
               /\ inboxTable' = AckInbox(inboxTable, u, frame.message_id)
               /\ sockets' = socks1
               /\ hist' = [hist EXCEPT
                             !.acked = @ \cup {<<u, frame.message_id>>}]
               /\ UNCHANGED <<nextMessageId, messagesTable>>
          [] frame.type = "message" ->
               IF IsParticipant(u, frame.chat_id)
               THEN DoSend(u, frame.chat_id, TRUE, socks1)
               ELSE /\ sockets' = Reject(socks1, s)
                    /\ hist' = [hist EXCEPT !.rejected = @ + 1]
                    /\ UNCHANGED <<nextMessageId, messagesTable,
                                   inboxTable>>
          [] frame.type \in {"subscribe", "unsubscribe"} ->
               /\ sockets' = Confirm(socks1, s, frame)
               /\ UNCHANGED <<nextMessageId, messagesTable, inboxTable,
                              hist>>
  /\ userSubscriptions' =
       LET frame == Head(sockets[s].c2s)
       IN SubscriptionsAfter(userSubscriptions, sockets[s].owner, frame)
  /\ UNCHANGED <<storeVars, hookVars, socketCount, timers, syncReqs, clock,
                 userConnections, cap>>

\* GET /chats/inbox/sync?user_id=...: the response is computed from the
\* Inbox at the time the request is served.
ServeSync(i) ==
  /\ i \in 1..Len(syncReqs)
  /\ syncReqs[i].stage = "sent"
  /\ syncReqs' = [syncReqs EXCEPT
                    ![i].stage = "resp",
                    ![i].items = SyncItems(syncReqs[i].user),
                    ![i].seen = {p[2] : p \in {q \in hist.sentTo :
                                                q[1] = syncReqs[i].user}},
                    ![i].acked = {p[2] : p \in {q \in hist.acked :
                                                 q[1] = syncReqs[i].user}}]
  /\ UNCHANGED <<storeVars, hookVars, sockets, socketCount, timers, srvVars,
                 cap, hist>>

(***************************************************************************)
(* Specifications.                                                         *)
(***************************************************************************)

InitHist ==
  [userChanges |-> 0, epoch |-> 0, schedule |-> <<>>,
   created |-> 0, opened |-> FALSE, synced |-> {}, sentTo |-> {},
   acked |-> {}, held |-> <<>>, rejected |-> 0,
   dropped |-> 0]

InitCommon ==
  /\ storeUserId = NoUser
  /\ chats = <<1, 2>>
  /\ messagesByChat = EmptyStore
  /\ localStorage = [u \in TabUsers \cup {NoUser} |-> EmptyStore]
  /\ effectUser = NoUser
  /\ wsRef = 0
  /\ isConnected = FALSE
  /\ isSyncing = FALSE
  /\ subscribedChats = <<>>
  /\ reconnectAttempts = 0
  /\ reconnectTimeout = 0
  /\ shouldReconnect = TRUE
  /\ sockets = <<>>
  /\ socketCount = 0
  /\ timers = {}
  /\ syncReqs = <<>>
  /\ clock = 0
  /\ nextMessageId = 1
  /\ messagesTable = {}
  /\ inboxTable = {}
  /\ userConnections = [u \in TabUsers |-> 0]
  /\ userSubscriptions = [u \in TabUsers |-> {}]
  /\ hist = InitHist

\* The client session: one browser tab whose user may change.  A run is
\* either against a service that accepts no connection (every attempt fails)
\* or against a service that is reachable.
Init ==
  /\ InitCommon
  /\ cap \in {[sockets |-> MaxSockets, userChanges |-> MaxUserChanges,
                sends |-> 0, reachable |-> FALSE, drops |-> 0],
               [sockets |-> MaxSessionSockets, userChanges |-> MaxUserChanges,
                sends |-> 0, reachable |-> TRUE, drops |-> 0]}

Next ==
  \/ \E u \in TabUsers \cup {NoUser} : SetUser(u)
  \/ CommitEffect
  \/ \E s \in DOMAIN sockets : ServerConnect(s)
  \/ \E s \in DOMAIN sockets : OnOpen(s)
  \/ \E s \in DOMAIN sockets : OnMessage(s)
  \/ \E s \in DOMAIN sockets, clean \in BOOLEAN : OnClose(s, clean)
  \/ \E t \in timers : TimerFire(t)
  \/ \E i \in 1..Len(syncReqs) : ServeSync(i)
  \/ \E i \in 1..Len(syncReqs) : SyncResponse(i)

Spec == Init /\ [][Next]_vars

\* Message delivery: the chat service and one tab that logs in once.  A run
\* either reconnects around one message or keeps one connection while
\* several messages are sent.
InitDelivery ==
  /\ InitCommon
  /\ cap \in {[sockets |-> MaxDeliverySockets, userChanges |-> 1,
                sends |-> 1, reachable |-> TRUE, drops |-> 0],
               [sockets |-> 1, userChanges |-> 1,
                sends |-> MaxSends, reachable |-> TRUE, drops |-> 0]}

NextDelivery ==
  \/ \E u \in TabUsers : SetUser(u)
  \/ CommitEffect
  \/ \E s \in DOMAIN sockets : ServerConnect(s)
  \/ \E s \in DOMAIN sockets : ServerDisconnect(s)
  \/ \E s \in DOMAIN sockets : ServerRecv(s)
  \/ \E s \in DOMAIN sockets : OnOpen(s)
  \/ \E s \in DOMAIN sockets : OnMessage(s)
  \/ \E s \in DOMAIN sockets, clean \in BOOLEAN : OnClose(s, clean)
  \/ \E t \in timers : TimerFire(t)
  \/ \E i \in 1..Len(syncReqs) : ServeSync(i)
  \/ \E i \in 1..Len(syncReqs) : SyncResponse(i)
  \/ \E i \in 1..Len(syncReqs) : SyncError(i)
  \/ \E c \in ChatIds : SendMessage(c)
  \/ \E sender \in Users, c \in ChatIds, published \in BOOLEAN :
       ServerSend(sender, c, published)
  \/ Tick

SpecDelivery == InitDelivery /\ [][NextDelivery]_vars

\* Forwarding: the chat service and one tab whose user changes, so that the
\* service holds the connections of two users at a time, one of them closed
\* by its client.
InitForward ==
  /\ InitCommon
  /\ cap = [sockets |-> MaxDeliverySockets, userChanges |-> MaxUserChanges,
            sends |-> MaxSends, reachable |-> TRUE, drops |-> 0]

\* The steps that connect, disconnect and send; the tab does not reconnect
\* and its sync requests are not served.
NextForward ==
  \/ \E u \in TabUsers : SetUser(u)
  \/ CommitEffect
  \/ \E s \in DOMAIN sockets : ServerConnect(s)
  \/ \E s \in DOMAIN sockets : ServerDisconnect(s)
  \/ \E s \in DOMAIN sockets : ServerRecv(s)
  \/ \E s \in DOMAIN sockets : OnOpen(s)
  \/ \E s \in DOMAIN sockets : OnMessage(s)
  \/ \E s \in DOMAIN sockets, clean \in BOOLEAN : OnClose(s, clean)
  \/ \E c \in ChatIds : SendMessage(c)
  \/ \E sender \in Users, c \in ChatIds, published \in BOOLEAN :
       ServerSend(sender, c, published)

SpecForward == InitForward /\ [][NextForward]_vars

\* Inbox sync across a change of user: the chat service and one tab whose
\* user changes while sync requests are in flight; the tab does not
\* reconnect and sends nothing itself.
InitSwitch ==
  /\ InitCommon
  /\ cap = [sockets |-> MaxDeliverySockets, userChanges |-> MaxUserChanges,
            sends |-> 1, reachable |-> TRUE, drops |-> 0]

NextSwitch ==
  \/ \E u \in TabUsers : SetUser(u)
  \/ CommitEffect
  \/ \E s \in DOMAIN sockets : ServerConnect(s)
  \/ \E s \in DOMAIN sockets : ServerRecv(s)
  \/ \E s \in DOMAIN sockets : OnOpen(s)
  \/ \E s \in DOMAIN sockets : OnMessage(s)
  \/ \E s \in DOMAIN sockets, clean \in BOOLEAN : OnClose(s, clean)
  \/ \E i \in 1..Len(syncReqs) : ServeSync(i)
  \/ \E i \in 1..Len(syncReqs) : SyncResponse(i)
  \/ \E sender \in Users, c \in ChatIds, published \in BOOLEAN :
       ServerSend(sender, c, published)

SpecSwitch == InitSwitch /\ [][NextSwitch]_vars

\* Commands of the tab: sendMessage, subscribeToChat and unsubscribeFromChat
\* called at any time by one tab that logs in once, with or without an open
\* socket.
InitCommands ==
  /\ InitCommon
  /\ cap = [sockets |-> MaxDeliverySockets, userChanges |-> 1, sends |-> 1,
            reachable |-> TRUE, drops |-> MaxDrops]

NextCommands ==
  \/ \E u \in TabUsers : SetUser(u)
  \/ CommitEffect
  \/ \E s \in DOMAIN sockets : ServerConnect(s)
  \/ \E s \in DOMAIN sockets : ServerRecv(s)
  \/ \E s \in DOMAIN sockets : OnOpen(s)
  \/ \E s \in DOMAIN sockets : OnMessage(s)
  \/ \E s \in DOMAIN sockets, clean \in BOOLEAN : OnClose(s, clean)
  \/ \E t \in timers : TimerFire(t)
  \/ \E c \in ChatIds : SendMessage(c)
  \/ \E c \in ChatIds : SubscribeToChat(c)
  \/ \E c \in ChatIds : UnsubscribeFromChat(c)

SpecCommands == InitCommands /\ [][NextCommands]_vars

(***************************************************************************)
(* The message store alone: addMessage applied to the records the client   *)
(* builds, from any duplicate-free store.                                  *)
(***************************************************************************)

\* The message ids that occur in a chat.
StoreIds(c) == IF c = 1 THEN {1, 2} ELSE {3}

Attachments ==
  {[upload_status |-> "undefined", s3_bucket |-> "undefined",
    s3_key |-> "undefined"],
   [upload_status |-> "COMPLETED", s3_bucket |-> "bucket", s3_key |-> "key"]}

LiveFrames(c) ==
  {[type |-> "message", message_id |-> id, chat_id |-> c, sender_id |-> 1,
    sender_username |-> "name", sender_name |-> "name", content |-> "hi",
    created_at |-> 0, upload_status |-> a.upload_status,
    s3_bucket |-> a.s3_bucket, s3_key |-> a.s3_key] :
     id \in StoreIds(c), a \in Attachments}

SyncResponseItems(c) ==
  {[message_id |-> id, chat_id |-> c, sender_id |-> 1, content |-> "hi",
    created_at |-> 0, upload_status |-> a.upload_status,
    s3_bucket |-> a.s3_bucket, s3_object_key |-> a.s3_key,
    s3_key |-> "undefined"] :
     id \in StoreIds(c), a \in Attachments}

StoreMessages(c) ==
  {LiveMessage(w) : w \in LiveFrames(c)}
    \cup {SyncMessage(i) : i \in SyncResponseItems(c)}
    \cup {PendingMessage(c, 1, id, 0) : id \in StoreIds(c)}

DuplicateFree(list) ==
  \A i, j \in 1..Len(list) :
     i # j => list[i].message_id # list[j].message_id

StoreLists(c) ==
  {l \in UNION {[1..n -> StoreMessages(c)] : n \in 0..MaxInitLen} :
     DuplicateFree(l)}

\* addMessage(chatId, message) of the store, with the write of persist.
AddMessage(chatId, message) ==
  /\ Len(messagesByChat[chatId]) < MaxStoreLen
  /\ messagesByChat' = AddMessageTo(messagesByChat, chatId, message)
  /\ localStorage' = Persist(localStorage, storeUserId, messagesByChat')
  /\ UNCHANGED <<storeUserId, chats, hookVars, netVars, srvVars, cap, hist>>

InitStore ==
  /\ storeUserId = 1
  /\ chats = <<1, 2>>
  /\ messagesByChat \in [ChatIds -> UNION {StoreLists(c) : c \in ChatIds}]
  /\ \A c \in ChatIds : messagesByChat[c] \in StoreLists(c)
  /\ localStorage = [u \in TabUsers \cup {NoUser} |->
                       IF u = 1 THEN messagesByChat ELSE EmptyStore]
  /\ effectUser = NoUser
  /\ wsRef = 0
  /\ isConnected = FALSE
  /\ isSyncing = FALSE
  /\ subscribedChats = <<>>
  /\ reconnectAttempts = 0
  /\ reconnectTimeout = 0
  /\ shouldReconnect = TRUE
  /\ sockets = <<>>
  /\ socketCount = 0
  /\ timers = {}
  /\ syncReqs = <<>>
  /\ clock = 0
  /\ nextMessageId = 1
  /\ messagesTable = {}
  /\ inboxTable = {}
  /\ userConnections = [u \in TabUsers |-> 0]
  /\ userSubscriptions = [u \in TabUsers |-> {}]
  /\ hist = InitHist
  /\ cap = [sockets |-> 0, userChanges |-> 0, sends |-> 0,
            reachable |-> FALSE, drops |-> 0]

NextStore ==
  \/ \E c \in ChatIds : \E w \in LiveFrames(c) :
       AddMessage(c, LiveMessage(w))
  \/ \E c \in ChatIds : \E i \in SyncResponseItems(c) :
       AddMessage(c, SyncMessage(i))
  \/ \E c \in ChatIds : \E id \in StoreIds(c) :
       AddMessage(c, PendingMessage(c, 1, id, 0))

SpecStore == InitStore /\ [][NextStore]_vars


(***************************************************************************)
(* Properties of the message store.                                        *)
(***************************************************************************)

IdsIn(list) == {list[i].message_id : i \in 1..Len(list)}

EntriesWithId(list, id) == {i \in 1..Len(list) : list[i].message_id = id}

AcksOf(queue, id) == {i \in 1..Len(queue) : queue[i] = AckFrame(id)}

\* C1: whatever sequence of addMessage calls the live path, the sync path
\* and the sender's placeholder produce, no chat's list ever holds two
\* entries with the same message_id.
C1_NoDuplicateIds ==
  \A c \in ChatIds : DuplicateFree(messagesByChat[c])

\* The tab has acknowledged one message twice on its socket, once from the
\* live frame and once from the sync response, and the chat's list holds
\* exactly one entry for it.
C1_Witness ==
  \E s \in DOMAIN sockets : \E c \in ChatIds :
    \E id \in IdsIn(messagesByChat[c]) :
       /\ Cardinality(AcksOf(sockets[s].c2s, id)) = 2
       /\ Cardinality(EntriesWithId(messagesByChat[c], id)) = 1

\* The list after an upsert of message into old, stated field by field.
IsUpsertOf(new, old, message) ==
  IF message.message_id \in IdsIn(old)
  THEN LET idx == CHOOSE i \in 1..Len(old) :
                     /\ old[i].message_id = message.message_id
                     /\ \A j \in 1..(i - 1) :
                          old[j].message_id # message.message_id
       IN /\ Len(new) = Len(old)
          /\ \A j \in 1..Len(old) : j # idx => new[j] = old[j]
          /\ DOMAIN new[idx] = DOMAIN old[idx] \cup DOMAIN message
          /\ \A k \in DOMAIN message : new[idx][k] = message[k]
          /\ \A k \in DOMAIN old[idx] \ DOMAIN message :
               new[idx][k] = old[idx][k]
  ELSE /\ Len(new) = Len(old) + 1
       /\ \A j \in 1..Len(old) : new[j] = old[j]
       /\ new[Len(new)] = message

\* C2: addMessage on an id already in the chat's list replaces that entry,
\* at the same index, by the field-wise union in which the incoming fields
\* win, and leaves the length and every other entry alone; on an absent id
\* it appends; no other chat's list changes.
C2_UpsertSemantics ==
  [][\A c \in ChatIds : \A m \in StoreMessages(c) :
       AddMessage(c, m) =>
         /\ IsUpsertOf(messagesByChat'[c], messagesByChat[c], m)
         /\ \A d \in ChatIds \ {c} : messagesByChat'[d] = messagesByChat[d]]_vars

\* A placeholder has been merged over an entry that came from a live frame:
\* the entry keeps the sender_username only the live frame carries, shows
\* the placeholder's PENDING upload, and stands first of two entries.
C2_Witness ==
  /\ Len(messagesByChat[1]) = 2
  /\ "sender_username" \in DOMAIN messagesByChat[1][1]
  /\ messagesByChat[1][1].upload_status = "PENDING"
  /\ messagesByChat[1][1].message_id = 1
  /\ messagesByChat[1][2].message_id = 2


(***************************************************************************)
(* Properties of the inbox: fanout, sync, acknowledgement.                 *)
(***************************************************************************)

ItemIds(items) == {items[i].message_id : i \in 1..Len(items)}

StoredIds(mbc) == UNION {IdsIn(mbc[c]) : c \in ChatIds}

\* C3: an inbox entry whose message has not been acknowledged by its
\* recipient is never retired: every (recipient, message) pair the fanout
\* wrote and the recipient did not acknowledge still has its entry.
C3_UnackedEntryKept ==
  \A p \in hist.sentTo \ hist.acked :
     \E e \in inboxTable : e.recipientId = p[1] /\ e.messageId = p[2]

\* C4, on finite runs: once a sync of recipient r that was served after
\* message m was sent to r has been merged, m is in r's local collection.
C4_SyncedIsStored ==
  \A p \in hist.synced :
     p[1] = storeUserId => p[2] \in StoredIds(messagesByChat)

\* C5: one Send to chat c by participant s creates exactly one Message row
\* and one inbox entry for each participant of c other than s, |P| - 1 in
\* all, and none for s.
C5_Fanout ==
  [][nextMessageId' # nextMessageId =>
       LET m == nextMessageId
           rows == {r \in messagesTable' : r.messageId = m}
           ents == {e \in inboxTable' : e.messageId = m}
       IN /\ Cardinality(rows) = 1
          /\ \A row \in rows :
               /\ row.senderId \in Participants(row.chatId)
               /\ Cardinality(ents)
                    = Cardinality(Participants(row.chatId)) - 1
               /\ {e.recipientId : e \in ents}
                    = Participants(row.chatId) \ {row.senderId}
               /\ \A e \in ents : e.chatId = row.chatId
          /\ {r \in messagesTable : r.messageId = m} = {}
          /\ {e \in inboxTable : e.messageId = m} = {}]_vars

\* A message of the three-party chat has its row and its two inbox entries,
\* neither of them the sender's.
C5_Witness ==
  \E row \in messagesTable :
     /\ row.chatId = 1
     /\ Cardinality({e \in inboxTable : e.messageId = row.messageId}) = 2
     /\ \A e \in inboxTable :
          e.messageId = row.messageId => e.recipientId # row.senderId

\* C6: once the acknowledgement of message m by recipient r has been
\* processed, no inbox sync served for r afterwards returns m; and
\* processing it removes no entry of another recipient.
C6_AckRetires ==
  /\ [](\A i \in 1..Len(syncReqs) :
          syncReqs[i].stage = "resp" =>
            ItemIds(syncReqs[i].items) \cap syncReqs[i].acked = {})
  /\ [][\A p \in hist'.acked \ hist.acked :
          \A e \in inboxTable : e.recipientId # p[1] => e \in inboxTable']_vars

\* A sync has been served for a recipient after the acknowledgement of a
\* message was processed, while another recipient's entry for that message
\* is still in the inbox.
C6_Witness ==
  \E i \in 1..Len(syncReqs) :
     /\ syncReqs[i].stage = "resp"
     /\ \E m \in syncReqs[i].acked :
          \E e \in inboxTable :
             e.messageId = m /\ e.recipientId # syncReqs[i].user


(***************************************************************************)
(* Properties of the reconnect policy.                                     *)
(***************************************************************************)

\* The session mounted first on a fresh hook, none of whose sockets opened.
FirstSessionNeverOpened == hist.epoch = 1 /\ ~hist.opened

\* The retry count is used up and the last socket has closed.
GaveUp ==
  /\ effectUser # NoUser
  /\ reconnectAttempts >= MAX_RECONNECT_ATTEMPTS
  /\ wsRef # 0
  /\ ReadyState(sockets, wsRef) = "CLOSED"

IsPrefix(a, b) == Len(a) <= Len(b) /\ a = SubSeq(b, 1, Len(a))

\* C7: in a session whose every connection attempt ends in an unclean close
\* without opening, the reconnect timers are scheduled with 1 s, 2 s, 4 s,
\* 8 s, 16 s in that order and exactly five reconnect attempts are made:
\* the schedule so far is a prefix of that list, the attempts never exceed
\* the scheduled timers, and when the session has given up the list is
\* complete and five reconnects were made.
C7_BackoffSchedule ==
  FirstSessionNeverOpened =>
    /\ IsPrefix(hist.schedule, <<1000, 2000, 4000, 8000, 16000>>)
    /\ reconnectAttempts = hist.created - 1
    /\ hist.created - 1 <= Len(hist.schedule)
    /\ GaveUp /\ timers = {} =>
         /\ hist.schedule = <<1000, 2000, 4000, 8000, 16000>>
         /\ hist.created - 1 = 5

\* The first session has failed six times in a row: the five timers were
\* scheduled and have fired, and the session has given up.
C7_Witness ==
  /\ FirstSessionNeverOpened
  /\ GaveUp
  /\ timers = {}
  /\ Len(hist.schedule) = 5
  /\ hist.created = 6

\* C8: once the retry count is used up the session is terminally
\* disconnected: isConnected is false and no reconnect timer is pending.
C8_TerminalGiveUp == GaveUp => (~isConnected /\ timers = {})

\* C9: after the teardown of a session no WebSocket is opened on its
\* behalf: every socket that is created belongs to the session whose
\* effect is in place.
C9_NoResurrection ==
  [][\A i \in DOMAIN sockets' \ DOMAIN sockets :
       sockets'[i].epoch = hist'.epoch /\ effectUser' # NoUser]_vars

\* C10: a clean close leaves the session disconnected and schedules
\* nothing; an unclean close of a session that is not torn down and has
\* used fewer than five attempts schedules exactly one reconnect, with the
\* backoff delay; and the reconnect, when its delay is over, puts a fresh
\* socket in the Connecting state.
C10_CloseHandling ==
  [][/\ \A s \in DOMAIN sockets :
          OnClose(s, TRUE) => ~isConnected' /\ timers' = timers
     /\ \A s \in DOMAIN sockets :
          OnClose(s, FALSE) /\ shouldReconnect /\ reconnectAttempts < 5 =>
            /\ ~isConnected'
            /\ timers \subseteq timers'
            /\ Cardinality(timers' \ timers) = 1
            /\ \A t \in timers' \ timers :
                 t.delay = 1000 * (2 ^ reconnectAttempts)
     /\ \A t \in timers :
          TimerFire(t) =>
            /\ wsRef' \notin DOMAIN sockets
            /\ ReadyState(sockets', wsRef') = "CONNECTING"]_vars

\* The first socket of the session closed uncleanly, its one reconnect was
\* scheduled and made, the second socket opened and then closed cleanly:
\* the session is disconnected and nothing is scheduled.
C10_Witness ==
  /\ hist.epoch = 1
  /\ effectUser # NoUser
  /\ hist.schedule = <<1000>>
  /\ hist.created = 2
  /\ wsRef = 2
  /\ ReadyState(sockets, 2) = "CLOSED"
  /\ reconnectAttempts = 0
  /\ shouldReconnect
  /\ timers = {}
  /\ ~isConnected


\* C11: the attempt counter is zero after every transition into Open, and
\* stays zero while the session's socket is open, so that the next unclean
\* close of that socket is retried with the base delay of 1 s and with all
\* five attempts left.
C11_ResetOnOpen ==
  /\ [](IsOpen(sockets, wsRef) => reconnectAttempts = 0)
  /\ [][/\ \A s \in DOMAIN sockets :
            OnOpen(s) => reconnectAttempts' = 0
        /\ \A s \in DOMAIN sockets :
            OnClose(s, FALSE) /\ s = wsRef /\ sockets[s].everOpen
              /\ sockets[s].readyState = "OPEN" /\ shouldReconnect =>
                /\ \E t \in timers' \ timers : t.delay = 1000
                /\ 5 - reconnectAttempts' = 5]_vars

\* The second socket of the session opened after one retry and then closed
\* uncleanly: both reconnects were scheduled with the base delay.
C11_Witness ==
  /\ hist.epoch = 1
  /\ hist.created = 2
  /\ hist.schedule = <<1000, 1000>>
  /\ reconnectAttempts = 0
  /\ Cardinality(timers) = 1


\* Socket s enters Open in the step.
Opens(s) ==
  /\ sockets[s].readyState # "OPEN"
  /\ s \in DOMAIN sockets'
  /\ sockets'[s].readyState = "OPEN"

\* C12: every transition of the session's socket into Open starts exactly
\* one inbox sync, for the user of that socket, and a sync request is only
\* ever issued in such a step, with the transport open.
C12_SyncOncePerOpen ==
  [][/\ \A s \in DOMAIN sockets :
          Opens(s) =>
            /\ Len(syncReqs') = Len(syncReqs) + 1
            /\ SubSeq(syncReqs', 1, Len(syncReqs)) = syncReqs
            /\ syncReqs'[Len(syncReqs')].user = sockets[s].owner
            /\ syncReqs'[Len(syncReqs')].stage = "sent"
     /\ Len(syncReqs') > Len(syncReqs) =>
          \E s \in DOMAIN sockets :
            Opens(s) /\ s = wsRef' /\ IsOpen(sockets', wsRef')]_vars

\* The session connected, lost the connection and reconnected: each of the
\* two opens has started its own sync, both still in flight.
C12_Witness ==
  /\ hist.epoch = 1
  /\ hist.created = 2
  /\ IsOpen(sockets, wsRef)
  /\ Len(syncReqs) = 2
  /\ \A i \in 1..Len(syncReqs) :
       syncReqs[i].user = effectUser /\ syncReqs[i].stage = "sent"


\* The acknowledgements socket s sends in the step.
AcksSent(s) ==
  IF s \in DOMAIN sockets' /\ Len(sockets'[s].c2s) > Len(sockets[s].c2s)
  THEN {sockets'[s].c2s[k].message_id :
          k \in {j \in (Len(sockets[s].c2s) + 1)..Len(sockets'[s].c2s) :
                   sockets'[s].c2s[j].type = "ack-message-received"}}
  ELSE {}

\* C13: on the live path and on the sync path an acknowledgement is sent
\* only for a message that addMessage has merged: when the frame goes out
\* the message is in the store and in what the store persisted.
C13_AckFollowsMerge ==
  [][\A s \in DOMAIN sockets : \A id \in AcksSent(s) :
       /\ id \in StoredIds(messagesByChat')
       /\ id \in StoredIds(localStorage'[storeUserId])]_vars

\* An acknowledgement is in flight for a message that reached the store by
\* the sync path only, and whose inbox entry is not retired yet.
C13_Witness ==
  \E s \in DOMAIN sockets : \E c \in ChatIds :
    \E i \in 1..Len(messagesByChat[c]) :
       /\ AcksOf(sockets[s].c2s, messagesByChat[c][i].message_id) # {}
       /\ "sender_username" \notin DOMAIN messagesByChat[c][i]
       /\ \E e \in inboxTable :
            /\ e.messageId = messagesByChat[c][i].message_id
            /\ e.recipientId = sockets[s].owner


\* Recipient r has the inbox entry of message id, or has acknowledged it.
EntryExistsOrRetired(r, id) ==
  \/ \E e \in inboxTable : e.recipientId = r /\ e.messageId = id
  \/ <<r, id>> \in hist.acked

\* C14: the inbox entries of a message are written before it is published:
\* whenever a recipient has the live frame of a message, on its connection
\* or merged into its store, the recipient's inbox entry for the message
\* exists or has been retired by the recipient's acknowledgement.
C14_InboxBeforePublish ==
  /\ \A s \in DOMAIN sockets : \A k \in 1..Len(sockets[s].s2c) :
       LET f == sockets[s].s2c[k]
       IN f.type = "message" /\ f.sender_id # sockets[s].owner =>
            EntryExistsOrRetired(sockets[s].owner, f.message_id)
  /\ \A c \in ChatIds : \A i \in 1..Len(messagesByChat[c]) :
       LET msg == messagesByChat[c][i]
       IN "sender_username" \in DOMAIN msg /\ msg.sender_id # storeUserId =>
            EntryExistsOrRetired(storeUserId, msg.message_id)


\* C15: an inbox sync returns the recipient's entries oldest first: the
\* created_at values of the items of a response are in ascending order.
C15_SyncAscending ==
  \A i \in 1..Len(syncReqs) :
     syncReqs[i].stage = "resp" =>
       \A j, k \in 1..Len(syncReqs[i].items) :
          j < k =>
            syncReqs[i].items[j].created_at < syncReqs[i].items[k].created_at


(***************************************************************************)
(* Properties of the subscriptions.                                        *)
(***************************************************************************)

\* The session's socket is open and its connected frame has been handled.
ConnectedHandled ==
  /\ IsOpen(sockets, wsRef)
  /\ sockets[wsRef].srv # "none"
  /\ \A k \in 1..Len(sockets[wsRef].s2c) :
       sockets[wsRef].s2c[k].type # "connected"

\* C16: in a session that lost its connection and reconnected, once the
\* connected frame of the new connection is handled the subscribed set is
\* the set the session held before the disconnect, and it is the set the
\* service looked up for the new connection; the close itself empties the
\* set the client held.
C16_SubscriptionsRestored ==
  /\ [](hist.epoch = 1 /\ ConnectedHandled =>
          /\ hist.held # <<>> => subscribedChats = hist.held
          /\ Range(subscribedChats)
               = userSubscriptions[sockets[wsRef].owner])
  /\ [][\A s \in DOMAIN sockets :
          OnClose(s, FALSE) \/ OnClose(s, TRUE) =>
            subscribedChats' = <<>>]_vars

\* The first session lost its connection uncleanly, reconnected after the
\* base delay and has handled the connected frame of the second socket.
C16_Witness ==
  /\ hist.epoch = 1
  /\ hist.schedule = <<1000>>
  /\ hist.created = 2
  /\ hist.held # <<>>
  /\ ConnectedHandled
  /\ subscribedChats = hist.held

HeadIsForeignSend(s) ==
  /\ sockets[s].srv = "up"
  /\ sockets[s].c2s # <<>>
  /\ Head(sockets[s].c2s).type = "message"
  /\ sockets[s].owner \notin Participants(Head(sockets[s].c2s).chat_id)

\* The frames of a type waiting on the service-to-client side of a socket.
FramesOfType(socks, i, type) ==
  IF i \in DOMAIN socks
  THEN Len(SelectSeq(socks[i].s2c, LAMBDA f : f.type = type))
  ELSE 0

\* C18: when the service reads a Send whose sender is not a participant of
\* the chat, it answers with an error frame on that connection, writes no
\* Message row and no InboxEntry, and no connection is pushed a message.
C18_RejectedSendNoEffect ==
  [][\A s \in DOMAIN sockets :
       ServerRecv(s) /\ HeadIsForeignSend(s) =>
         /\ messagesTable' = messagesTable
         /\ inboxTable' = inboxTable
         /\ nextMessageId' = nextMessageId
         /\ \A i \in DOMAIN sockets :
              FramesOfType(sockets', i, "message")
                = FramesOfType(sockets, i, "message")
         /\ sockets[s].readyState = "OPEN" =>
              FramesOfType(sockets', s, "error")
                = FramesOfType(sockets, s, "error") + 1]_vars

\* User 2, who is not in chat 2, sent a message to it: the frame was read,
\* the error frame is on its way back and nothing was stored.
C18_Witness ==
  /\ IsOpen(sockets, wsRef)
  /\ sockets[wsRef].owner \notin Participants(2)
  /\ sockets[wsRef].c2s = <<>>
  /\ FramesOfType(sockets, wsRef, "error") = 1
  /\ hist.rejected = 1
  /\ messagesTable = {}
  /\ inboxTable = {}
  /\ nextMessageId = 1

\* The sockets on which the service runs a connection of user u.
LiveConnections(u) ==
  {i \in DOMAIN sockets : sockets[i].owner = u /\ sockets[i].srv = "up"}

\* C19: the service runs at most one connection per user, with one
\* subscription set, and it is the one registered for the user; a Connect
\* for a user who has a connection tears the prior one down and registers
\* the new one.
C19_OneConnectionPerUser ==
  /\ [](\A u \in TabUsers :
          /\ Cardinality(LiveConnections(u)) <= 1
          /\ LiveConnections(u) \subseteq {userConnections[u]}
          /\ userConnections[u] # 0 => LiveConnections(u) # {}
          /\ userConnections[u] = 0 => userSubscriptions[u] = {})
  /\ [][\A s \in DOMAIN sockets :
          ServerConnect(s) =>
            LET u == sockets[s].owner
                old == userConnections[u]
            IN /\ userConnections'[u] = s
               /\ old # 0 /\ old \in DOMAIN sockets' =>
                    sockets'[old].srv = "down"]_vars

\* The first session lost the connection on which it had been subscribed,
\* which the service still ran, and connected again on a second socket: the
\* service has torn the first connection down and registered the second.
C19_Witness ==
  /\ hist.epoch = 1
  /\ hist.held # <<>>
  /\ hist.created = 2
  /\ 1 \notin DOMAIN sockets
  /\ LiveConnections(effectUser) = {2}
  /\ userConnections[effectUser] = 2

\* Socket i is pushed a message frame in the step.
GainsMessage(i) ==
  /\ i \in DOMAIN sockets'
  /\ FramesOfType(sockets', i, "message")
       > FramesOfType(sockets, i, "message")

\* The service runs the connection of socket i for a user subscribed to
\* chat c.
SubscribedConnection(i, c) ==
  /\ userConnections[sockets[i].owner] = i
  /\ c \in userSubscriptions[sockets[i].owner]

\* C20: a connection is pushed a message only if the service runs it for a
\* user whose subscription set holds the chat of the message; a published
\* message reaches every subscribed connection that is not closed, and a
\* connection that is closed is pushed nothing while the others are served.
C20_ForwardToSubscribers ==
  [][/\ \A i \in DOMAIN sockets :
          GainsMessage(i) =>
            LET f == sockets'[i].s2c[Len(sockets'[i].s2c)]
            IN /\ f.type = "message"
               /\ SubscribedConnection(i, f.chat_id)
     /\ \A sender \in Users, c \in ChatIds :
          ServerSend(sender, c, TRUE) =>
            \A i \in DOMAIN sockets :
              IF /\ SubscribedConnection(i, c)
                 /\ sockets[i].readyState \in {"CONNECTING", "OPEN"}
              THEN GainsMessage(i)
              ELSE i \in DOMAIN sockets' => sockets'[i].s2c = sockets[i].s2c
    ]_vars

\* The service runs the connections of users 1 and 2; user 1's client has
\* closed its socket.  A message to chat 2, to which user 2 is not
\* subscribed, and a message to chat 1 were published: user 2's connection
\* holds the message of chat 1 only and the closed connection holds nothing.
C20_Witness ==
  /\ DOMAIN sockets = {1, 2}
  /\ userConnections = [u \in TabUsers |-> u]
  /\ sockets[1].owner = 1
  /\ sockets[1].readyState = "CLOSING"
  /\ sockets[1].s2c = <<>>
  /\ IsOpen(sockets, 2)
  /\ nextMessageId = 3
  /\ {r.chatId : r \in messagesTable} = {1, 2}
  /\ FramesOfType(sockets, 2, "message") = 1
  /\ \A k \in 1..Len(sockets[2].s2c) :
       sockets[2].s2c[k].type = "message" => sockets[2].s2c[k].chat_id = 1

\* Disconnect(u) applied to the state of the service.
DisconnectNow(u) ==
  Disconnect(sockets, userConnections, userSubscriptions, u)

\* Disconnect(u) applied again to the outcome of Disconnect(u).
DisconnectTwice(u) ==
  LET once == DisconnectNow(u)
  IN Disconnect(once.socks, once.conns, once.subs, u)

\* C21: Disconnect(u) leaves u without connection, subscriptions and
\* listener; applied a second time, or to a user without a connection, it
\* changes nothing more; and it leaves every other user's connection,
\* subscriptions and listener as they were.
C21_DisconnectIdempotent ==
  /\ [](\A u \in TabUsers :
          LET once == DisconnectNow(u)
          IN /\ once.conns[u] = 0
             /\ once.subs[u] = {}
             /\ \A i \in DOMAIN once.socks :
                  once.socks[i].owner = u => once.socks[i].srv # "up"
             /\ DisconnectTwice(u) = once
             /\ userConnections[u] = 0 =>
                  once = [socks |-> sockets, conns |-> userConnections,
                          subs |-> userSubscriptions]
             /\ \A v \in TabUsers \ {u} :
                  /\ once.conns[v] = userConnections[v]
                  /\ once.subs[v] = userSubscriptions[v]
                  /\ \A i \in DOMAIN sockets :
                       sockets[i].owner = v => once.socks[i] = sockets[i])
  /\ [][\A s \in DOMAIN sockets :
          ServerDisconnect(s) =>
            LET u == sockets[s].owner
            IN /\ userConnections'[u] = 0
               /\ userSubscriptions'[u] = {}
               /\ \A v \in TabUsers \ {u} :
                    /\ userConnections'[v] = userConnections[v]
                    /\ userSubscriptions'[v] = userSubscriptions[v]]_vars

\* The service disconnected user 1, whose socket the client is still
\* closing, while it runs the connection of user 2 with its subscriptions.
C21_Witness ==
  /\ DOMAIN sockets = {1, 2}
  /\ sockets[1].owner = 1
  /\ sockets[1].srv = "down"
  /\ userConnections[1] = 0
  /\ userSubscriptions[1] = {}
  /\ sockets[2].owner = 2
  /\ sockets[2].srv = "up"
  /\ userConnections[2] = 2
  /\ userSubscriptions[2] # {}

\* C22: at most one reconnect timer is pending, it is the one
\* reconnectTimeout refers to, and after a teardown that is not followed by
\* a new mount no reconnect timer is pending.
C22_SingleReconnectTimer ==
  /\ Cardinality(timers) <= 1
  /\ \A t \in timers : t.id = reconnectTimeout
  /\ effectUser = NoUser => timers = {}

\* A command was called in the step.
CommandCalled ==
  \/ \E c \in ChatIds : SendMessage(c)
  \/ \E c \in ChatIds : SubscribeToChat(c)
  \/ \E c \in ChatIds : UnsubscribeFromChat(c)

\* C23: sendMessage, subscribeToChat and unsubscribeFromChat called while
\* wsRef points to no socket in OPEN state transmit nothing, leave nothing
\* behind to be transmitted later and leave the chat order, the messages,
\* the persisted messages and the subscribed chats as they were.
C23_CommandsDropped ==
  [][CommandCalled /\ ~IsOpen(sockets, wsRef) =>
       /\ UNCHANGED <<storeVars, hookVars, netVars, srvVars>>
       /\ hist'.dropped = hist.dropped + 1]_vars

\* Two commands were called while the socket of the session was still
\* connecting: nothing is in flight and the chat order is the initial one.
C23_Witness ==
  /\ hist.dropped = 2
  /\ wsRef # 0
  /\ ReadyState(sockets, wsRef) = "CONNECTING"
  /\ sockets[wsRef].c2s = <<>>
  /\ chats = <<1, 2>>
  /\ subscribedChats = <<>>

\* C24: a close event of a socket that is not the one wsRef points to
\* leaves isConnected, subscribedChats and the reconnect timers as they
\* were; and whenever the socket wsRef points to is open, isConnected is
\* true.
C24_StaleCloseHarmless ==
  /\ [][\A s \in DOMAIN sockets :
          (OnClose(s, TRUE) \/ OnClose(s, FALSE)) /\ s # wsRef =>
            /\ isConnected' = isConnected
            /\ subscribedChats' = subscribedChats
            /\ timers' = timers]_vars
  /\ [](IsOpen(sockets, wsRef) => isConnected)

\* C25: the items of a sync response requested for user U are merged into
\* the store only while it belongs to U, and their acknowledgements are
\* sent only on a socket opened for U.
C25_SyncConfined ==
  [][\A i \in 1..Len(syncReqs) :
       SyncResponse(i) /\ syncReqs[i].items # <<>> =>
         /\ storeUserId = syncReqs[i].user
         /\ \A s \in DOMAIN sockets :
              AcksSent(s) # {} => sockets[s].owner = syncReqs[i].user]_vars

\* The fields of a message record that a duplicate may lack.
OptionalFields ==
  {"upload_status", "s3_bucket", "s3_key", "sender_username", "sender_name"}

\* Record r has a defined value for field k.
HasValue(r, k) == k \in DOMAIN r /\ r[k] # "undefined"

\* C26: when addMessage merges a record into the stored record of the same
\* message_id, every optional field that has a value in the stored record
\* and none in the incoming record keeps its stored value; and merging the
\* same record a second time changes nothing.
C26_MergeKeepsFields ==
  [][\A c \in ChatIds : \A m \in StoreMessages(c) :
       AddMessage(c, m) =>
         LET idx == FindIndex(messagesByChat[c], m.message_id)
         IN /\ idx > 0 =>
                 \A k \in OptionalFields :
                   HasValue(messagesByChat[c][idx], k) /\ ~HasValue(m, k) =>
                     /\ k \in DOMAIN messagesByChat'[c][idx]
                     /\ messagesByChat'[c][idx][k] = messagesByChat[c][idx][k]
            /\ Upsert(messagesByChat'[c], m) = messagesByChat'[c]]_vars

\* C27: two messages addressed to the same recipient each keep their own
\* inbox entry until the recipient acknowledges them, also when both carry
\* the same created_at: a fanout write removes no entry of another message.
C27_NoKeyCollision ==
  [][\A e \in inboxTable :
       nextMessageId' = nextMessageId + 1 => e \in inboxTable']_vars

\* C28: the reconnect attempt counter is never below zero nor above
\* MAX_RECONNECT_ATTEMPTS.
C28_AttemptsBounded ==
  reconnectAttempts >= 0 /\ reconnectAttempts <= MAX_RECONNECT_ATTEMPTS

\* C29: when the first socket of a session, the one the effect run created,
\* closes uncleanly before it opened, a reconnect is scheduled with the base
\* delay, whatever an earlier session did.
C29_FullRetryPolicy ==
  [][\A s \in DOMAIN sockets :
       /\ OnClose(s, FALSE)
       /\ s = wsRef
       /\ sockets[s].epoch = hist.epoch
       /\ hist.created = 1
       /\ ~sockets[s].everOpen
       => \E t \in timers' \ timers : t.delay = BASE_RECONNECT_DELAY]_vars

\* The sockets that are connecting or open.
LiveSockets ==
  {i \in DOMAIN sockets : sockets[i].readyState \in {"CONNECTING", "OPEN"}}

\* C30: at most one socket of the session is connecting or open, and it is
\* the one wsRef points to; connect() and the effect cleanup leave the
\* socket that was current neither connecting nor open.
C30_OneLiveSocket ==
  /\ [](LiveSockets \subseteq {wsRef})
  /\ [][(CommitEffect \/ \E t \in timers : TimerFire(t)) =>
          ReadyState(sockets', wsRef) \notin {"CONNECTING", "OPEN"}]_vars

\* In the second session a reconnect timer fired while the socket of an
\* earlier reconnect was still connecting: connect() closed the third socket
\* and the fourth is the only one connecting.
C30_Witness ==
  /\ hist.epoch = 2
  /\ wsRef = 4
  /\ ReadyState(sockets, 3) = "CLOSING"
  /\ ReadyState(sockets, 4) = "CONNECTING"
  /\ LiveSockets = {4}

====
